---- MODULE Spec2Model ----
(***************************************************************************)
(* A model of pydepsync: the dependency specifier (src/dependency.rs), the *)
(* manifest accessor (src/pyproject.rs), the candidate evaluator           *)
(* (src/engine/evaluator.rs), the index resolver (src/engine/resolver.rs)  *)
(* and the detection pipeline (src/engine/mod.rs).                         *)
(*                                                                         *)
(* Strings are sequences of one-character strings, so that the regular     *)
(* expression of Dependency::parse, the formatting of Display and the      *)
(* lowercasing of PartialEq/Hash are computed character by character.      *)
(* Option<T> is a sequence of length 0 (None) or 1 (Some).                 *)
(***************************************************************************)
EXTENDS Integers, Sequences, FiniteSets, TLC

VARIABLES
    pc,          \* position of the running operation
    input,       \* dependency.rs: the string handed to Dependency::parse
    shape,       \* how `input` was written (its fields as typed), or NoShape
    parsed,      \* dependency.rs: Option<Dependency> returned by parse(input)
    text,        \* dependency.rs: Option<String>, the serialized form
    reparsed,    \* dependency.rs: Option<Dependency> returned by parse(text)
    manifest,    \* pyproject.toml: the dependency strings it declares
    pyproject,   \* pyproject.rs: struct PyProject, as read() built it
    alldeps,     \* pyproject.rs: the set all_deps() returned
    written,     \* pyproject.toml: Option of project.dependencies as write() set it
    overrides,   \* evaluator.rs: extras_to_remap, the caller's remap table
    evaluator,   \* evaluator.rs: Option<DependencyEvaluator>
    candidates,  \* evaluator.rs: evaluate's candidates
    existing,    \* evaluator.rs: evaluate's existing_deps
    locals,      \* evaluator.rs: evaluate's local_packages
    result,      \* evaluator.rs: what evaluate did: [panicked, deps]
    options,     \* mod.rs: EngineOptions (exclude_dirs, extra_indexes, preferred_index)
    resolver,    \* resolver.rs: Option<PackageResolver>
    sources,     \* mod.rs: what each source file of the tree holds
    unread,      \* mod.rs: the files found that the parsing loop has not reached
    imports,     \* mod.rs: the module names the parser returned for the files read
    todo,        \* mod.rs: the evaluated specifiers the resolving iterator has not reached
    worker,      \* mod.rs: Option<the thread spawned for one specifier, running resolve>
    resolved,    \* mod.rs: resolved_deps, as collected so far
    joined,      \* mod.rs: the threads joined so far: [dep, status, value]
    outcome,     \* mod.rs: Option<what detect_dependencies returned>
    listing,     \* resolver.rs: the versions handed to get_latest_version_from_version_str
    latest,      \* resolver.rs: Option<what get_latest_version_from_version_str did>
    tree,        \* finder.rs: the file tree at start_path, a set of [path, kind]
    finder,      \* finder.rs: struct PythonFileFinder
    files,       \* finder.rs: Option<what find_files did>
    packages,    \* finder.rs: Option<what find_local_packages did>
    py_code,     \* parser.rs: the text handed to extract_dependencies, as the parser reads it
    extracted,   \* parser.rs: Option<what extract_dependencies did>
    args,        \* main.rs: the command line, struct Args
    config,      \* main.rs: the configuration file, struct Config
    merged       \* main.rs: Option<the EngineOptions merge_args_and_config returned>

depVars == <<input, shape, parsed, text, reparsed>>

manifestVars == <<manifest, pyproject, alldeps, written>>

evalVars == <<overrides, evaluator, candidates, existing, locals, result>>

engineVars == <<options, resolver, sources, unread, imports, todo, worker, resolved, joined,
               outcome>>

latestVars == <<listing, latest>>

finderVars == <<tree, finder, files, packages>>

parserVars == <<py_code, extracted>>

mergeVars == <<args, config, merged>>

auxVars == <<latestVars, finderVars, parserVars, mergeVars>>

vars == <<pc, depVars, manifestVars, evalVars, engineVars, auxVars>>

----------------------------------------------------------------------------
(* Option<T> *)

None == <<>>

Some(x) == <<x>>

IsSome(o) == Len(o) = 1

Unwrap(o) == o[1]

----------------------------------------------------------------------------
(* Characters.  CharCode is the code point, which is what String's Ord     *)
(* (used by Vec<String>::sort) compares in UTF-8 byte order.               *)

NL == "\n"

AsciiLower == {"a", "b", "d", "m", "o", "p", "s", "y"}

AsciiUpper == {"A", "D", "M", "P"}

Digits == {"0", "1", "2", "9"}

\* A letter outside ASCII (e with an acute accent, U+00E9): a word character (\w)
\* that [A-Za-z] does not match.
NonAscii == {"e_acute"}

Punct == {"[", "]", ",", "=", "<", ">", "~", "!", "^", ";", "-", "_", ".", "@"}

\* \s of the regex crate and char::is_whitespace: the space and the newline stand for them.
Space == {" ", NL}

Chars == AsciiLower \cup AsciiUpper \cup Digits \cup NonAscii \cup Punct \cup Space

CharCode(c) ==
    CASE c = NL  -> 10  [] c = " " -> 32  [] c = "!" -> 33  [] c = "," -> 44
      [] c = "-" -> 45  [] c = "." -> 46  [] c = "0" -> 48  [] c = "1" -> 49
      [] c = "2" -> 50  [] c = "9" -> 57  [] c = ";" -> 59  [] c = "<" -> 60
      [] c = "=" -> 61  [] c = ">" -> 62  [] c = "@" -> 64  [] c = "A" -> 65
      [] c = "D" -> 68  [] c = "M" -> 77  [] c = "P" -> 80  [] c = "[" -> 91
      [] c = "]" -> 93  [] c = "^" -> 94  [] c = "_" -> 95  [] c = "a" -> 97
      [] c = "b" -> 98  [] c = "d" -> 100 [] c = "m" -> 109 [] c = "o" -> 111
      [] c = "p" -> 112 [] c = "s" -> 115 [] c = "y" -> 121 [] c = "~" -> 126
      [] c = "e_acute" -> 233

\* char::to_lowercase on the characters of the model.
LowerChar(c) ==
    CASE c = "A" -> "a" [] c = "D" -> "d" [] c = "M" -> "m" [] c = "P" -> "p"
      [] OTHER -> c

\* str::to_lowercase
ToLowercase(s) == [i \in 1..Len(s) |-> LowerChar(s[i])]

\* The character classes of the regex in Dependency::parse.
NameChars == AsciiLower \cup AsciiUpper \cup Digits \cup {"-", "_", "."}

\* [\d\w\-.] : \w is Unicode-aware in the regex crate.
VersionChars == AsciiLower \cup AsciiUpper \cup Digits \cup NonAscii \cup {"-", "_", "."}

\* [~=<>!]
OpLead == {"~", "=", "<", ">", "!"}

\* [<>]
OpSingle == {"<", ">"}

\* `.` matches everything but the newline.
Dot == Chars \ {NL}

----------------------------------------------------------------------------
(* String helpers (std) *)

RECURSIVE SkipWhile(_, _, _)
\* The first index >= i whose character is not in C (Len(s)+1 when there is none).
SkipWhile(s, i, C) ==
    IF i <= Len(s) /\ s[i] \in C THEN SkipWhile(s, i + 1, C) ELSE i

RECURSIVE SkipBack(_, _, _)
\* The last index <= i whose character is not in C (0 when there is none).
SkipBack(s, i, C) ==
    IF i >= 1 /\ s[i] \in C THEN SkipBack(s, i - 1, C) ELSE i

\* str::trim
Trim(s) ==
    LET a == SkipWhile(s, 1, Space)
        b == SkipBack(s, Len(s), Space)
    IN IF a > b THEN <<>> ELSE SubSeq(s, a, b)

RECURSIVE Split(_, _)
\* str::split(c): the pieces between the occurrences of c (always at least one piece).
Split(s, c) ==
    LET k == SkipWhile(s, 1, Chars \ {c})
    IN IF k > Len(s) THEN <<s>>
       ELSE <<SubSeq(s, 1, k - 1)>> \o Split(SubSeq(s, k + 1, Len(s)), c)

RECURSIVE StrLess(_, _)
\* String's Ord: lexicographic on code points, a proper prefix first.
StrLess(x, y) ==
    IF Len(y) = 0 THEN FALSE
    ELSE IF Len(x) = 0 THEN TRUE
    ELSE IF x[1] # y[1] THEN CharCode(x[1]) < CharCode(y[1])
    ELSE StrLess(Tail(x), Tail(y))

RECURSIVE SortStrings(_)
\* Vec<String>::sort of the elements of a set of strings.
SortStrings(S) ==
    IF S = {} THEN <<>>
    ELSE LET m == CHOOSE x \in S : \A y \in S \ {x} : StrLess(x, y)
         IN <<m>> \o SortStrings(S \ {m})

RECURSIVE Join(_, _)
\* [String]::join(sep)
Join(ss, sep) ==
    IF Len(ss) = 0 THEN <<>>
    ELSE IF Len(ss) = 1 THEN ss[1]
    ELSE ss[1] \o sep \o Join(Tail(ss), sep)

----------------------------------------------------------------------------
(* src/dependency.rs *)

\* struct Dependency
Dependency(n, e, v, m) ==
    [name |-> n, extras |-> e, version_spec |-> v, markers |-> m]

\* (?:\[(.*?)\])? at index i: the lazy .*? stops at the first "]" and cannot cross a
\* newline.  [grp |-> Option<String>, next |-> index after the group]
MatchExtras(s, i) ==
    IF i <= Len(s) /\ s[i] = "["
    THEN LET j == SkipWhile(s, i + 1, Dot \ {"]"})
         IN IF j <= Len(s) /\ s[j] = "]"
            THEN [grp |-> Some(SubSeq(s, i + 1, j - 1)), next |-> j + 1]
            ELSE [grp |-> None, next |-> i]
    ELSE [grp |-> None, next |-> i]

\* ([~=<>!]={1,2}|[<>]|\^) at index k: the end (exclusive) of the operator under each
\* way the alternation can match there, in the order the regex tries them.
OpEnds(s, k) ==
    LET has(i, C) == i <= Len(s) /\ s[i] \in C
        alt1 == IF has(k, OpLead) /\ has(k + 1, {"="})
                THEN (IF has(k + 2, {"="}) THEN <<k + 3, k + 2>> ELSE <<k + 2>>)
                ELSE <<>>
        alt2 == IF has(k, OpSingle) THEN <<k + 1>> ELSE <<>>
        alt3 == IF has(k, {"^"}) THEN <<k + 1>> ELSE <<>>
    IN alt1 \o alt2 \o alt3

\* (?:\s*(op)\s*([\d\w\-.]+))? at index i.
\* [op, ver |-> Option<String>, next |-> index after the group]
MatchVersion(s, i) ==
    LET k    == SkipWhile(s, i, Space)
        ends == OpEnds(s, k)
        \* the first way of matching the operator after which \s*[\d\w\-.]+ matches
        ok(e) == LET v == SkipWhile(s, e, Space)
                 IN SkipWhile(s, v, VersionChars) > v
        good == {n \in 1..Len(ends) : ok(ends[n])}
    IN IF good = {}
       THEN [op |-> None, ver |-> None, next |-> i]
       ELSE LET n == CHOOSE x \in good : \A y \in good : x <= y
                e == ends[n]
                v == SkipWhile(s, e, Space)
                w == SkipWhile(s, v, VersionChars)
            IN [op |-> Some(SubSeq(s, k, e - 1)), ver |-> Some(SubSeq(s, v, w - 1)),
                next |-> w]

\* \s*(?:;\s*(.+))? at index i: \s* is greedy and gives characters back until .+ can
\* match one; .+ runs to the end of the line.
MatchMarker(s, i) ==
    LET p == SkipWhile(s, i, Space)
    IN IF p <= Len(s) /\ s[p] = ";"
       THEN LET r == SkipWhile(s, p + 1, Space)
                \* where .+ starts: at r, or at the last given-back character it matches
                t == IF r <= Len(s) THEN r ELSE SkipBack(s, Len(s), {NL})
            IN IF t > p /\ t <= Len(s)
               THEN Some(SubSeq(s, t, SkipWhile(s, t, Dot) - 1))
               ELSE None
       ELSE None

\* Dependency::parse
Parse(s) ==
    LET n == SkipWhile(s, 1, NameChars)
    IN IF n = 1 THEN None
       ELSE LET ex == MatchExtras(s, n)
                vs == MatchVersion(s, ex.next)
                mk == MatchMarker(s, vs.next)
                extras == IF IsSome(ex.grp)
                          THEN LET parts == Split(Unwrap(ex.grp), ",")
                               IN {Trim(parts[q]) : q \in 1..Len(parts)}
                          ELSE {}
                version_spec == IF IsSome(vs.op) /\ IsSome(vs.ver)
                                THEN Some(<<Unwrap(vs.op), Unwrap(vs.ver)>>)
                                ELSE None
            IN Some(Dependency(SubSeq(s, 1, n - 1), extras, version_spec, mk))

\* to_dependency_repr with the marker appended without its "; " separator.
ReprMarkerUnseparated(d) ==
    LET ext == IF d.extras # {}
               THEN <<"[">> \o Join(SortStrings(d.extras), <<",">>) \o <<"]">>
               ELSE <<>>
        ver == IF IsSome(d.version_spec)
               THEN Unwrap(d.version_spec)[1] \o Unwrap(d.version_spec)[2]
               ELSE <<>>
        mrk == IF IsSome(d.markers) THEN Unwrap(d.markers) ELSE <<>>
    IN d.name \o ext \o ver \o mrk

RECURSIVE Reverse(_)
Reverse(ss) == IF Len(ss) = 0 THEN <<>> ELSE Reverse(Tail(ss)) \o <<Head(ss)>>

\* to_dependency_repr without extras.sort(): the extras in another iteration order.
ReprExtrasUnsorted(d) ==
    LET ext == IF d.extras # {}
               THEN <<"[">> \o Join(Reverse(SortStrings(d.extras)), <<",">>) \o <<"]">>
               ELSE <<>>
        ver == IF IsSome(d.version_spec)
               THEN Unwrap(d.version_spec)[1] \o Unwrap(d.version_spec)[2]
               ELSE <<>>
        mrk == IF IsSome(d.markers) THEN <<";", " ">> \o Unwrap(d.markers) ELSE <<>>
    IN d.name \o ext \o ver \o mrk

\* Dependency::to_dependency_repr
ToDependencyRepr(d) ==
    LET ext == IF d.extras # {}
               THEN <<"[">> \o Join(SortStrings(d.extras), <<",">>) \o <<"]">>
               ELSE <<>>
        ver == IF IsSome(d.version_spec)
               THEN Unwrap(d.version_spec)[1] \o Unwrap(d.version_spec)[2]
               ELSE <<>>
        mrk == IF IsSome(d.markers) THEN <<";", " ">> \o Unwrap(d.markers) ELSE <<>>
    IN d.name \o ext \o ver \o mrk

\* impl Display for Dependency
Display(d) ==
    LET ext == IF d.extras # {}
               THEN <<"[">> \o Join(SortStrings(d.extras), <<",">>) \o <<"]">>
               ELSE <<>>
        ver == IF IsSome(d.version_spec)
               THEN Unwrap(d.version_spec)[1] \o Unwrap(d.version_spec)[2]
               ELSE <<>>
        mrk == IF IsSome(d.markers) THEN <<";", " ">> \o Unwrap(d.markers) ELSE <<>>
    IN d.name \o ext \o ver \o mrk

\* PartialEq as #[derive(PartialEq)] would compare: every field.
DepEqAllFields(a, b) == a = b

\* impl PartialEq for Dependency
DepEq(a, b) == ToLowercase(a.name) = ToLowercase(b.name)

\* impl Hash for Dependency: the bytes fed to the hasher.
DepHash(d) == ToLowercase(d.name)

\* HashSet<Dependency>::contains: a bucket found by Hash, an element found by Eq.
HashSetContains(S, d) == \E e \in S : DepHash(e) = DepHash(d) /\ DepEq(e, d)

\* HashSet<Dependency>::insert: an element equal to one of the set is not added, and the
\* one of the set stays.
HashSetInsert(S, d) == IF HashSetContains(S, d) THEN S ELSE S \cup {d}

RECURSIVE CollectDeps(_, _)
\* Inserting the specifiers parsed from a list of strings, in its order, into S.
CollectDeps(S, strs) ==
    IF Len(strs) = 0 THEN S
    ELSE CollectDeps(HashSetInsert(S, Unwrap(Parse(Head(strs)))), Tail(strs))

RECURSIVE InsertAll(_, _)
\* Inserting the elements of the set T into S.  An element of T is refused or not
\* whatever the order, as no two elements of a HashSet are equal.
InsertAll(S, T) ==
    IF T = {} THEN S
    ELSE LET d == CHOOSE x \in T : TRUE
         IN InsertAll(HashSetInsert(S, d), T \ {d})

----------------------------------------------------------------------------
(* src/pyproject.rs *)

\* read: project.dependencies collected into deps; the arrays of dependency-groups and
\* of project.optional-dependencies inserted into optional_deps.
ReadPyProject(doc) ==
    [deps |-> CollectDeps({}, doc.dependencies),
     optional_deps |-> CollectDeps({}, doc.optional)]

\* The orders in which a HashSet can hand out its elements.
Iterations(S) ==
    {order \in [1..Cardinality(S) -> S] :
        \A i, j \in 1..Cardinality(S) : order[i] = order[j] => i = j}

\* write: the array put under project.dependencies: the new specifiers, then the ones
\* read() collected, each as to_dependency_repr gives it, each set in the order its
\* iteration gives.
WriteArray(p, new_deps) ==
    {[i \in 1..Len(news) |-> ToDependencyRepr(news[i])]
        \o [i \in 1..Len(olds) |-> ToDependencyRepr(olds[i])] :
     news \in Iterations(new_deps), olds \in Iterations(p.deps)}

\* all_deps without the loop over optional_deps.
AllDepsRequiredOnly(p) == InsertAll({}, p.deps)

\* PyProject::all_deps
AllDeps(p) == InsertAll(InsertAll({}, p.deps), p.optional_deps)

----------------------------------------------------------------------------
(* src/engine/evaluator.rs *)

\* stdlib::get_python_stdlib_modules: the standard library's module names ("os" is one).
GetPythonStdlibModules == {<<"o", "s">>}

\* irregulars::get_python_irregulars: import name -> distribution name (as AFQ -> pyAFQ
\* and rest_framework -> djangorestframework).
GetPythonIrregulars ==
    (<<"A", "D">> :> <<"p", "y", "A", "D">>) @@ (<<"d", "m">> :> <<"D", "d", "m">>)

\* DependencyEvaluator::new: the built-in pairs are inserted into the caller's table,
\* and HashMap::insert replaces the value of a key the table has.
New(extras_to_remap) ==
    [stdlib_pakages |-> GetPythonStdlibModules,
     irregulars_to_remap |-> GetPythonIrregulars @@ extras_to_remap]

\* .filter(not in stdlib) only.
FilteredStdlibOnly(ev, cands, local_packages) ==
    {c \in cands : c \notin ev.stdlib_pakages}

\* evaluate: .filter(not in stdlib).filter(not in local_packages)
Filtered(ev, cands, local_packages) ==
    {c \in cands : c \notin ev.stdlib_pakages /\ c \notin local_packages}

\* evaluate: the closure of .map: the table's value for a key, the name itself otherwise.
Remap(ev, c) ==
    IF c \in DOMAIN ev.irregulars_to_remap THEN ev.irregulars_to_remap[c] ELSE c

\* The existing-dependency filter applied to the names before they are remapped.
SurvivingExistingFirst(ev, names, existing_deps) ==
    {Remap(ev, c) : c \in {n \in names : ~HashSetContains(existing_deps, Unwrap(Parse(n)))}}

\* evaluate: .map(remap).filter(|c| !existing_deps.contains(&Dependency::parse(c).unwrap()))
\* collected into a HashSet<String>.  (Every remapped name parses when this is used.)
Surviving(ev, names, existing_deps) ==
    {m \in {Remap(ev, c) : c \in names} : ~HashSetContains(existing_deps, Unwrap(Parse(m)))}

\* evaluate: deps.iter().map(parse(..).unwrap()).collect::<HashSet<Dependency>>().  The
\* HashSet<String> is iterated in no fixed order, so of the specifiers that are equal
\* any one may be the one inserted first, which is the one the set keeps.
Collected(strs) ==
    LET ds == {Unwrap(Parse(m)) : m \in strs}
    IN {R \in SUBSET ds :
           \A d \in ds : Cardinality({e \in R : DepEq(e, d)}) = 1}

\* DependencyEvaluator::evaluate: the results it can produce.  unwrap() panics when a
\* remapped name does not parse.
Evaluate(ev, cands, existing_deps, local_packages) ==
    LET names == Filtered(ev, cands, local_packages)
    IN IF \E c \in names : ~IsSome(Parse(Remap(ev, c)))
       THEN {[panicked |-> TRUE, deps |-> {}]}
       ELSE {[panicked |-> FALSE, deps |-> R] :
                R \in Collected(Surviving(ev, names, existing_deps))}

----------------------------------------------------------------------------
(* src/engine/resolver.rs *)

DefaultIndex == "https://pypi.org/simple"

\* new with the default index put before the preferred one.
ResolverNewDefaultFirst(extra_indexes, preferred_index) ==
    [indexes |-> <<DefaultIndex>>
                 \o (IF IsSome(preferred_index) THEN <<Unwrap(preferred_index)>> ELSE <<>>)
                 \o extra_indexes]

\* PackageResolver::new
ResolverNew(extra_indexes, preferred_index) ==
    [indexes |-> (IF IsSome(preferred_index) THEN <<Unwrap(preferred_index)>> ELSE <<>>)
                 \o <<DefaultIndex>>
                 \o extra_indexes]

I32Max == 2147483647

RECURSIVE DecimalValue(_)
\* The accumulation of str::parse::<i32>, digit by digit with checked arithmetic: the
\* value of the digits, or -1 once it has passed i32::MAX.
DecimalValue(s) ==
    IF Len(s) = 0 THEN 0
    ELSE LET high == DecimalValue(SubSeq(s, 1, Len(s) - 1))
             digit == CharCode(s[Len(s)]) - CharCode("0")
         IN IF high < 0 \/ high > (I32Max - digit) \div 10 THEN -1
            ELSE 10 * high + digit

\* str::parse::<i32> on a segment of digits: Err on the empty string, on another
\* character and on overflow.
ParseI32(s) ==
    IF Len(s) = 0 \/ \E i \in 1..Len(s) : s[i] \notin Digits THEN None
    ELSE IF DecimalValue(s) < 0 THEN None
    ELSE Some(DecimalValue(s))

\* Ord::cmp on integers
IntCmp(x, y) == IF x < y THEN "Less" ELSE IF x > y THEN "Greater" ELSE "Equal"

\* Ord::cmp on strings
StrCmp(x, y) == IF StrLess(x, y) THEN "Less" ELSE IF StrLess(y, x) THEN "Greater" ELSE "Equal"

RECURSIVE CompareParts(_, _, _, _)
\* The closure of sort_by, on the segments of a and b not compared yet.
CompareParts(a, b, a_parts, b_parts) ==
    IF Len(a_parts) = 0 \/ Len(b_parts) = 0 THEN IntCmp(Len(b), Len(a))
    ELSE LET a_num == ParseI32(Head(a_parts))
             b_num == ParseI32(Head(b_parts))
         IN IF IsSome(a_num) /\ IsSome(b_num)
            THEN IF Unwrap(a_num) # Unwrap(b_num)
                 THEN IntCmp(Unwrap(b_num), Unwrap(a_num))
                 ELSE CompareParts(a, b, Tail(a_parts), Tail(b_parts))
            ELSE StrCmp(b, a)

\* get_latest_version_from_version_str: the closure given to sort_by.
CompareVersions(a, b) == CompareParts(a, b, Split(a, "."), Split(b, "."))

\* What a call did: it returned `value`, or it panicked.
Returned(value) == [panicked |-> FALSE, value |-> value]

Panicked == [panicked |-> TRUE, value |-> None]

\* Whether the closure given to sort_by is a total order on the elements of the list.
IsTotalOrderOn(versions) ==
    LET n == Len(versions)
        cmp(i, j) == CompareVersions(versions[i], versions[j])
    IN /\ \A i, j \in 1..n :
             cmp(i, j) = (CASE cmp(j, i) = "Less" -> "Greater"
                            [] cmp(j, i) = "Greater" -> "Less"
                            [] OTHER -> "Equal")
       /\ \A i, j, k \in 1..n :
             (cmp(i, j) # "Greater" /\ cmp(j, k) # "Greater") => cmp(i, k) # "Greater"

\* get_latest_version_from_version_str: what it can do.  The sort is stable, so under a
\* total order the first of the list's least elements comes first.  When the closure
\* is not a total order, slice::sort_by leaves the order unspecified and may panic.
GetLatestVersionFromVersionStr(versions) ==
    IF Len(versions) = 0 THEN {Returned(None)}
    ELSE IF IsTotalOrderOn(versions)
    THEN LET least == {i \in 1..Len(versions) :
                          \A j \in 1..Len(versions) :
                              CompareVersions(versions[i], versions[j]) # "Greater"}
         IN {Returned(Some(versions[CHOOSE i \in least : \A j \in least : i <= j]))}
    ELSE {Returned(Some(versions[i])) : i \in 1..Len(versions)} \cup {Panicked}

\* parse_versions_on_index, from the text each matching anchor has between "<name>-" and
\* ".tar.gz": the ones made of ASCII digits and dots only, in document order.
ParseVersionsOnIndex(entries) ==
    SelectSeq(entries, LAMBDA v : \A i \in 1..Len(v) : v[i] \in Digits \cup {"."})

\* What a GET of <index>/<name> can bring: no response, a body that cannot be read, or a
\* listing.
RequestError == [kind |-> "request_error", entries |-> <<>>]

UnreadableBody == [kind |-> "unreadable_body", entries |-> <<>>]

Html(entries) == [kind |-> "html", entries |-> entries]

\* resolve_on_index, given the response: what it can do.
ResolveOnIndex(dep, response) ==
    IF response.kind # "html" THEN {Returned(None)}
    ELSE {IF lastest_version.panicked THEN Panicked
          ELSE IF IsSome(lastest_version.value)
          THEN Returned(Some(Unwrap(Parse(dep.name \o <<"~", "=">>
                                          \o Unwrap(lastest_version.value)))))
          ELSE Returned(None) :
             lastest_version \in
                 GetLatestVersionFromVersionStr(ParseVersionsOnIndex(response.entries))}

\* resolve with every index queried, whatever the earlier ones answered.
NextIndexAlways(position, found) == position + 1

\* resolve: find_map is lazy: the index after `position` is tried only when the ones up to
\* it yielded nothing (0: no further index is tried).
NextIndex(position, found) == IF IsSome(found) THEN 0 ELSE position + 1

Ok(v) == [ok |-> TRUE, value |-> v]

Err(e) == [ok |-> FALSE, value |-> e]

\* resolve with an error returned when no index has the package.
ResolveReturnErrWhenNotFound(dep, found) ==
    IF IsSome(found) THEN Ok(Unwrap(found)) ELSE Err("ResolverError")

\* resolve: the match on what find_map found.
ResolveReturn(dep, found) ==
    IF IsSome(found) THEN Ok(Unwrap(found)) ELSE Ok(dep)

----------------------------------------------------------------------------
(* src/engine/finder.rs *)

\* Position of the last '.' of a file name, 0 when it has none.
LastDot(name) ==
    LET dots == {i \in 1..Len(name) : name[i] = "."}
    IN IF dots = {} THEN 0 ELSE CHOOSE i \in dots : \A j \in dots : j <= i

\* Path::extension: what follows the last '.', unless the name has no '.' or its only
\* '.' is its first character.
Extension(name) ==
    IF LastDot(name) >= 2 THEN Some(SubSeq(name, LastDot(name) + 1, Len(name))) ELSE None

\* Path::file_stem: what precedes the last '.', or the whole name.
FileStem(name) ==
    IF LastDot(name) >= 2 THEN SubSeq(name, 1, LastDot(name) - 1) ELSE name

\* PythonFileFinder::new
PythonFileFinderNew ==
    [excluded_dirs |-> << <<"v", "e", "n", "v">>, <<".", "g", "i", "t">> >>]

\* PythonFileFinder::exclude_dirs
ExcludeDirs(self, dirs) == [self EXCEPT !.excluded_dirs = @ \o dirs]

\* An entry of the tree: its path from start_path (start_path's own name first) and
\* what the walk finds there: a file, a directory, a directory that cannot be listed
\* (permission denied), or an entry that cannot be examined (a dangling link, a
\* start_path that does not exist).
FileName(entry) == entry.path[Len(entry.path)]

\* e.file_type().is_dir()
IsDir(entry) == entry.kind \in {"dir", "unreadable"}

EntryAt(t, path) == CHOOSE entry \in t : entry.path = path

\* The closure given to filter_entry.
FilterEntry(self, entry) ==
    IF IsDir(entry)
    THEN ~(\E i \in 1..Len(self.excluded_dirs) : self.excluded_dirs[i] = FileName(entry))
    ELSE TRUE

\* WalkDir descends to an entry when filter_entry kept every directory above it, the
\* root included.
Visited(self, t, entry) ==
    \A k \in 1..(Len(entry.path) - 1) : FilterEntry(self, EntryAt(t, SubSeq(entry.path, 1, k)))

\* WalkDir::new(start_path).follow_links(true).into_iter().filter_entry(..): the
\* entries it yields as Ok and the entries at which it yields an Err.  An Err is not
\* handed to the closure; a directory the closure rejects is not listed.
Walk(self, t) ==
    [ok |-> {entry \in t : /\ Visited(self, t, entry)
                           /\ entry.kind # "broken"
                           /\ FilterEntry(self, entry)},
     err |-> {entry \in t : /\ Visited(self, t, entry)
                            /\ \/ entry.kind = "broken"
                               \/ entry.kind = "unreadable" /\ FilterEntry(self, entry)}]

\* find_files, with .filter_map(|e| e.ok()) kept as the source has it: the Err items
\* are dropped.  The Vec is a set here, the walk yields no path twice.
FindFiles(self, t) ==
    Ok({entry.path : entry \in {e \in Walk(self, t).ok :
                                   /\ e.kind = "file"
                                   /\ Extension(FileName(e)) = Some(<<"p", "y">>)}})

\* find_local_packages: fs::canonicalize(start_path).unwrap(), then every path walked.
FindLocalPackages(self, t) ==
    IF \E entry \in t : Len(entry.path) = 1 /\ entry.kind = "broken"
    THEN Panicked
    ELSE Returned(Ok({entry.path : entry \in {e \in t : Len(e.path) = 1}}
                     \cup {entry.path : entry \in Walk(self, t).ok}))

----------------------------------------------------------------------------
(* src/engine/parser.rs *)

\* The statements of a module as rustpython_parser::parse gives them: an import
\* statement with its names, a from-import statement with its module (None for
\* `from . import x`), a compound statement with the statements of its body, and any
\* other statement.
Import(names) == [kind |-> "import", names |-> names, module |-> None, body |-> <<>>]

ImportFrom(module) == [kind |-> "import_from", names |-> <<>>, module |-> module, body |-> <<>>]

Compound(kind, body) == [kind |-> kind, names |-> <<>>, module |-> None, body |-> body]

Pass == [kind |-> "pass", names |-> <<>>, module |-> None, body |-> <<>>]

RECURSIVE Flatten(_)
\* Iterator::flat_map(..).collect() on a list of lists
Flatten(lists) == IF Len(lists) = 0 THEN <<>> ELSE Head(lists) \o Flatten(Tail(lists))

\* extract_dependencies: parse(..).unwrap() panics on text that is no module; then the
\* names of the import statements of m.body, then the modules of its from-import
\* statements.
ExtractDependencies(code) ==
    IF ~code.valid THEN Panicked
    ELSE LET import_stmts == SelectSeq(code.body, LAMBDA stmt : stmt.kind = "import")
             from_stmts == SelectSeq(code.body, LAMBDA stmt : stmt.kind = "import_from")
             imported == Flatten([n \in 1..Len(import_stmts) |-> import_stmts[n].names])
             from_imports == Flatten([n \in 1..Len(from_stmts) |-> from_stmts[n].module])
         IN Returned(Ok(imported \o from_imports))

----------------------------------------------------------------------------
(* src/main.rs *)

RECURSIVE CollectMap(_)
\* args.remap.into_iter().collect() into a HashMap: a later pair replaces an earlier one
\* of the same key.
CollectMap(pairs) ==
    IF Len(pairs) = 0 THEN <<>>
    ELSE LET last == pairs[Len(pairs)]
         IN (last[1] :> last[2]) @@ CollectMap(SubSeq(pairs, 1, Len(pairs) - 1))

\* Option::unwrap_or_default
UnwrapOrDefault(o) == IF IsSome(o) THEN Unwrap(o) ELSE <<>>

\* merge_args_and_config with the configuration's directories appended to the command
\* line's.
MergeAppendingConfig(a, c) ==
    [exclude_dirs |-> a.exclude_dirs \o UnwrapOrDefault(c.exclude_dirs),
     extra_indexes |-> IF a.extra_indexes # <<>> THEN a.extra_indexes
                       ELSE UnwrapOrDefault(c.extra_indexes),
     preferred_index |-> IF IsSome(a.preferred_index) THEN a.preferred_index
                         ELSE c.preferred_index,
     extras_to_remap |-> IF a.remap # <<>> THEN CollectMap(a.remap)
                         ELSE UnwrapOrDefault(c.remap)]

\* merge_args_and_config
MergeArgsAndConfig(a, c) ==
    [exclude_dirs |-> IF a.exclude_dirs # <<>> THEN a.exclude_dirs
                      ELSE UnwrapOrDefault(c.exclude_dirs),
     extra_indexes |-> IF a.extra_indexes # <<>> THEN a.extra_indexes
                       ELSE UnwrapOrDefault(c.extra_indexes),
     preferred_index |-> IF IsSome(a.preferred_index) THEN a.preferred_index
                         ELSE c.preferred_index,
     extras_to_remap |-> IF a.remap # <<>> THEN CollectMap(a.remap)
                         ELSE UnwrapOrDefault(c.remap)]

----------------------------------------------------------------------------
(* Inputs of the specifier operations.                                     *)

\* Longest string of the exhaustive part of the inputs.
MaxRawLen == 4

\* One character of each class the regex tells apart.
RawChars == {"a", "[", "]", ",", "=", "<", "^", ";", " ", NL}

RawStrings == UNION {[1..n -> RawChars] : n \in 0..MaxRawLen}

\* Longest run of operator characters after a name.
MaxOpLen == 3

\* A name, a run of the characters operators are made of, and a version.
OperatorStrings ==
    {<<"a">> \o run \o <<"1">> :
        run \in UNION {[1..n -> {"~", "=", "<", "!"}] : n \in 1..MaxOpLen}}

\* Specifier strings as they are written in manifests, field by field: the name, the
\* bracketed extras as typed, the operator and version with the blanks around the
\* operator, and the marker with the blanks around the semicolon.
ShapeNames == {<<"a">>, <<"P", "y", "-", "b">>}

ShapeExtras ==
    {None, Some(<< <<>> >>), Some(<< <<"a">> >>), Some(<< <<"a">>, <<"b">> >>),
     Some(<< <<"b">>, <<"a">> >>), Some(<< <<"a">>, <<" ", "b">> >>),
     Some(<< <<"a">>, <<"a">> >>), Some(<< <<>>, <<"a">> >>)}

Operators ==
    {<<"~", "=">>, <<"=", "=">>, <<"=", "=", "=">>, <<"!", "=">>, <<"<", "=">>,
     <<">", "=">>, <<"<">>, <<">">>, <<"^">>}

Blanks == {<<>>, <<" ">>}

ShapeVersions ==
    {None} \cup
    {Some([pre |-> g1, op |-> o, post |-> g2, ver |-> <<"1", ".", "2">>]) :
        g1 \in Blanks, g2 \in Blanks, o \in Operators}

ShapeMarkerBodies == {<<"m">>, <<"o", "s", " ", "=", "=", " ", "a">>, <<"m", " ">>}

ShapeMarkers ==
    {None} \cup
    {Some([pre |-> g, lead |-> l, body |-> b]) :
        g \in Blanks, l \in {<<>>, <<" ">>, <<" ", " ">>}, b \in ShapeMarkerBodies}

Shapes ==
    [name : ShapeNames, extras : ShapeExtras, version : ShapeVersions,
     marker : ShapeMarkers]

\* The string a shape is written as.
Compose(sh) ==
    sh.name
    \o (IF IsSome(sh.extras) THEN <<"[">> \o Join(Unwrap(sh.extras), <<",">>) \o <<"]">>
        ELSE <<>>)
    \o (IF IsSome(sh.version)
        THEN LET v == Unwrap(sh.version) IN v.pre \o v.op \o v.post \o v.ver
        ELSE <<>>)
    \o (IF IsSome(sh.marker)
        THEN LET m == Unwrap(sh.marker) IN m.pre \o <<";">> \o m.lead \o m.body
        ELSE <<>>)

----------------------------------------------------------------------------
(* SpecDep: parse a string, serialize the specifier, parse the result.     *)

LatestIdle ==
    /\ listing = <<>>
    /\ latest = None

FinderIdle ==
    /\ tree = {}
    /\ finder = [excluded_dirs |-> <<>>]
    /\ files = None
    /\ packages = None

ParserIdle ==
    /\ py_code = [valid |-> TRUE, body |-> <<>>]
    /\ extracted = None

MergeIdle ==
    /\ args = [exclude_dirs |-> <<>>, extra_indexes |-> <<>>, preferred_index |-> None,
               remap |-> <<>>]
    /\ config = [exclude_dirs |-> None, extra_indexes |-> None, preferred_index |-> None,
                 remap |-> None]
    /\ merged = None

AuxIdle ==
    /\ LatestIdle
    /\ FinderIdle
    /\ ParserIdle
    /\ MergeIdle

EngineIdle ==
    /\ options = [exclude_dirs |-> <<>>, extra_indexes |-> <<>>, preferred_index |-> None]
    /\ resolver = None
    /\ sources = <<>>
    /\ unread = {}
    /\ imports = {}
    /\ todo = {}
    /\ worker = None
    /\ resolved = {}
    /\ joined = {}
    /\ outcome = None

EvalIdle ==
    /\ overrides = <<>>
    /\ evaluator = None
    /\ candidates = {}
    /\ existing = {}
    /\ locals = {}
    /\ result = [panicked |-> FALSE, deps |-> {}]

ManifestIdle ==
    /\ manifest = [dependencies |-> <<>>, optional |-> <<>>]
    /\ pyproject = [deps |-> {}, optional_deps |-> {}]
    /\ alldeps = {}
    /\ written = None

DepIdle ==
    /\ input = <<>>
    /\ shape = None
    /\ parsed = None
    /\ text = None
    /\ reparsed = None

InitDep ==
    /\ pc = "start"
    /\ \/ input \in RawStrings /\ shape = None
       \/ input \in OperatorStrings /\ shape = None
       \/ \E sh \in Shapes : input = Compose(sh) /\ shape = Some(sh)
    /\ parsed = None
    /\ text = None
    /\ reparsed = None
    /\ ManifestIdle
    /\ EvalIdle
    /\ EngineIdle
    /\ AuxIdle

\* let dep = Dependency::parse(input)
DoParse ==
    /\ pc = "start"
    /\ parsed' = Parse(input)
    /\ pc' = IF IsSome(Parse(input)) THEN "parsed" ELSE "rejected"
    /\ UNCHANGED <<input, shape, text, reparsed, manifestVars, evalVars, engineVars, auxVars>>

\* dep.to_dependency_repr()
DoRepr ==
    /\ pc = "parsed"
    /\ text' = Some(ToDependencyRepr(Unwrap(parsed)))
    /\ pc' = "serialized"
    /\ UNCHANGED <<input, shape, parsed, reparsed, manifestVars, evalVars, engineVars, auxVars>>

\* format!("{dep}")
DoDisplay ==
    /\ pc = "parsed"
    /\ text' = Some(Display(Unwrap(parsed)))
    /\ pc' = "serialized"
    /\ UNCHANGED <<input, shape, parsed, reparsed, manifestVars, evalVars, engineVars, auxVars>>

\* Dependency::parse(text)
DoReparse ==
    /\ pc = "serialized"
    /\ reparsed' = Parse(Unwrap(text))
    /\ pc' = "reparsed"
    /\ UNCHANGED <<input, shape, parsed, text, manifestVars, evalVars, engineVars, auxVars>>

NextDep == DoParse \/ DoRepr \/ DoDisplay \/ DoReparse

SpecDep == InitDep /\ [][NextDep]_vars

----------------------------------------------------------------------------
(* SpecManifest: read a manifest, then ask for all its dependencies.       *)

\* Longest dependency list of a manifest table.
MaxDeclared == 2

\* Dependency strings a manifest declares.
DeclaredStrings ==
    {<<"a">>, <<"A">>, <<"a", ">", "=", "1">>, <<"A", "[", "b", "]">>,
     <<"a", ";", " ", "m">>, <<"b">>}

DeclaredLists == UNION {[1..n -> DeclaredStrings] : n \in 0..MaxDeclared}

\* Sets of new specifiers handed to write: none, one resolved on an index, one resolved
\* and one that no index had.
NewDeps ==
    {{},
     {Dependency(<<"d">>, {}, Some(<< <<"~", "=">>, <<"1", ".", "2">> >>), None)},
     {Dependency(<<"d">>, {}, Some(<< <<"~", "=">>, <<"1", ".", "2">> >>), None),
      Dependency(<<"m">>, {}, None, None)}}

InitManifest ==
    /\ pc = "start"
    /\ manifest \in [dependencies : DeclaredLists, optional : DeclaredLists]
    /\ pyproject = [deps |-> {}, optional_deps |-> {}]
    /\ alldeps = {}
    /\ written = None
    /\ DepIdle
    /\ EvalIdle
    /\ EngineIdle
    /\ AuxIdle

\* pyproject::read
Read ==
    /\ pc = "start"
    /\ pyproject' = ReadPyProject(manifest)
    /\ pc' = "read"
    /\ UNCHANGED <<manifest, alldeps, written, depVars, evalVars, engineVars, auxVars>>

\* pyproject.all_deps()
CallAllDeps ==
    /\ pc = "read"
    /\ alldeps' = AllDeps(pyproject)
    /\ pc' = "merged"
    /\ UNCHANGED <<manifest, pyproject, written, depVars, evalVars, engineVars, auxVars>>

\* pyproject::write(path, pyproject, new_deps)
Write ==
    /\ pc = "merged"
    /\ \E new_deps \in NewDeps : \E arr \in WriteArray(pyproject, new_deps) :
          written' = Some(arr)
    /\ pc' = "written"
    /\ UNCHANGED <<manifest, pyproject, alldeps, depVars, evalVars, engineVars, auxVars>>

NextManifest == Read \/ CallAllDeps \/ Write

SpecManifest == InitManifest /\ [][NextManifest]_vars

----------------------------------------------------------------------------
(* SpecEval: build an evaluator from a remap table, then evaluate.         *)

\* Module names found in imports: a standard-library module, the two irregular import
\* names, names in two cases, and identifiers with a letter outside ASCII.
CandidateNames ==
    {<<"o", "s">>, <<"A", "D">>, <<"d", "m">>, <<"a">>, <<"A">>, <<"e_acute">>, <<"a", "e_acute">>}

\* Specifiers the manifest may declare already.
ExistingDeps ==
    {Unwrap(Parse(<<"a", ">", "=", "1">>)), Unwrap(Parse(<<"d", "d", "m">>)),
     Unwrap(Parse(<<"b">>))}

\* Stems of the files and directories of the source tree.
LocalNames == {<<"a">>, <<"A", "D">>}

\* Remap tables a caller passes: empty, or one pair whose key is a standard-library
\* module, a built-in irregular or another name, and whose value may be empty.
OverrideTables ==
    {<<>>}
    \cup {k :> v : k \in {<<"o", "s">>, <<"A", "D">>, <<"a">>}, v \in {<<"b">>, <<>>}}

InitEval ==
    /\ pc = "start"
    /\ overrides \in OverrideTables
    /\ evaluator = None
    /\ candidates \in SUBSET CandidateNames
    /\ existing \in SUBSET ExistingDeps
    /\ locals \in SUBSET LocalNames
    /\ result = [panicked |-> FALSE, deps |-> {}]
    /\ DepIdle
    /\ ManifestIdle
    /\ EngineIdle
    /\ AuxIdle

\* DependencyEvaluator::new(extras_to_remap)
DoNew ==
    /\ pc = "start"
    /\ evaluator' = Some(New(overrides))
    /\ pc' = "built"
    /\ UNCHANGED <<overrides, candidates, existing, locals, result, depVars, manifestVars,
                   engineVars, auxVars>>

\* evaluator.evaluate(candidates, existing_deps, local_packages)
DoEvaluate ==
    /\ pc = "built"
    /\ result' \in Evaluate(Unwrap(evaluator), candidates, existing, locals)
    /\ pc' = "evaluated"
    /\ UNCHANGED <<overrides, evaluator, candidates, existing, locals, depVars, manifestVars,
                   engineVars, auxVars>>

NextEval == DoNew \/ DoEvaluate

SpecEval == InitEval /\ [][NextEval]_vars

----------------------------------------------------------------------------
(* SpecLatest: get_latest_version_from_version_str on a list of versions.  *)

\* Longest list of versions.
MaxVersions == 3

\* Versions of one, two and three segments, one with a segment above i32::MAX.
VersionStrings ==
    {<<"1", ".", "2">>, <<"1", ".", "1", "0">>, <<"1", ".", "9">>, <<"1", ".", "2", ".", "0">>,
     <<"9">>, <<"1", "0">>, <<"2", "2", "2", "2", "2", "2", "2", "2", "2", "2">>}

VersionLists == UNION {[1..n -> VersionStrings] : n \in 0..MaxVersions}

InitLatest ==
    /\ pc = "start"
    /\ listing \in VersionLists
    /\ latest = None
    /\ FinderIdle
    /\ ParserIdle
    /\ MergeIdle
    /\ DepIdle
    /\ ManifestIdle
    /\ EvalIdle
    /\ EngineIdle

\* get_latest_version_from_version_str(listing)
DoLatest ==
    /\ pc = "start"
    /\ \E o \in GetLatestVersionFromVersionStr(listing) : latest' = Some(o)
    /\ pc' = "selected"
    /\ UNCHANGED <<listing, finderVars, parserVars, mergeVars, depVars, manifestVars, evalVars, engineVars>>

NextLatest == DoLatest

SpecLatest == InitLatest /\ [][NextLatest]_vars

----------------------------------------------------------------------------
(* SpecFinder: find_files and find_local_packages on a tree.               *)

\* Names start_path may have: a project directory, and a name the finder excludes.
RootNames == {<<"p", "r", "o", "j">>, <<"v", "e", "n", "v">>}

\* What there may be below start_path: source files at the top, in an excluded
\* directory, in a package and in an excluded directory of a package, and another file.
BelowRoot ==
    {[path |-> << <<"v", "e", "n", "v">> >>, kind |-> "dir"],
     [path |-> << <<"v", "e", "n", "v">>, <<"k", ".", "p", "y">> >>, kind |-> "file"],
     [path |-> << <<"p", "k", "g">> >>, kind |-> "dir"],
     [path |-> << <<"p", "k", "g">>, <<"k", ".", "p", "y">> >>, kind |-> "file"],
     [path |-> << <<"p", "k", "g">>, <<"v", "e", "n", "v">> >>, kind |-> "dir"],
     [path |-> << <<"p", "k", "g">>, <<"v", "e", "n", "v">>, <<"k", ".", "p", "y">> >>,
      kind |-> "file"],
     [path |-> << <<"m", ".", "p", "y">> >>, kind |-> "file"],
     [path |-> << <<"n", ".", "t", "x", "t">> >>, kind |-> "file"]}

\* The sets of entries in which every entry has its directory.
Layouts ==
    {layout \in SUBSET BelowRoot :
        \A entry \in layout :
            Len(entry.path) > 1 =>
                \E dir \in layout : /\ dir.kind = "dir"
                                     /\ dir.path = SubSeq(entry.path, 1, Len(entry.path) - 1)}

\* The tree of a layout under a root name.
Rooted(root, layout) ==
    {[path |-> <<root>>, kind |-> "dir"]}
    \cup {[path |-> <<root>> \o entry.path, kind |-> entry.kind] : entry \in layout}

\* The entries of a tree under which the tree has nothing.
Leaves(t) ==
    {entry \in t : ~\E below \in t : /\ Len(below.path) = Len(entry.path) + 1
                                      /\ SubSeq(below.path, 1, Len(entry.path)) = entry.path}

\* A tree, and the same tree with one of its leaves failing: a directory that cannot be
\* listed, or an entry that cannot be examined.
Faulted(t) ==
    {t} \cup {(t \ {leaf}) \cup {[leaf EXCEPT !.kind = kind]} :
                 leaf \in Leaves(t), kind \in {"unreadable", "broken"}}

Trees == UNION {Faulted(Rooted(root, layout)) : root \in RootNames, layout \in Layouts}

\* Directories a caller excludes.
ExcludedByCaller == {<<>>, << <<"p", "k", "g">> >>}

InitFinder ==
    /\ pc = "start"
    /\ tree \in Trees
    /\ \E dirs \in ExcludedByCaller : finder = ExcludeDirs(PythonFileFinderNew, dirs)
    /\ files = None
    /\ packages = None
    /\ LatestIdle
    /\ ParserIdle
    /\ MergeIdle
    /\ DepIdle
    /\ ManifestIdle
    /\ EvalIdle
    /\ EngineIdle

\* find_files(start_path)
DoFindFiles ==
    /\ files = None
    /\ files' = Some(FindFiles(finder, tree))
    /\ UNCHANGED <<pc, tree, finder, packages, latestVars, parserVars, mergeVars, depVars, manifestVars,
                   evalVars,
                   engineVars>>

\* find_local_packages(start_path)
DoFindLocalPackages ==
    /\ packages = None
    /\ packages' = Some(FindLocalPackages(finder, tree))
    /\ UNCHANGED <<pc, tree, finder, files, latestVars, parserVars, mergeVars, depVars, manifestVars, evalVars,
                   engineVars>>

NextFinder == DoFindFiles \/ DoFindLocalPackages

SpecFinder == InitFinder /\ [][NextFinder]_vars

----------------------------------------------------------------------------
(* SpecParser: extract_dependencies on the text of a module.               *)

\* Longest module body.
MaxStatements == 2

\* import a / import a, dm.a / from dm import .. / from . import .. / another statement /
\* the same imports inside a function, a conditional and a try block.
Statements ==
    {Import(<< <<"a">> >>),
     Import(<< <<"a">>, <<"d", "m", ".", "a">> >>),
     ImportFrom(Some(<<"d", "m">>)),
     ImportFrom(None),
     Pass,
     Compound("def", <<Import(<< <<"b">> >>)>>),
     Compound("if", <<ImportFrom(Some(<<"b">>))>>),
     Compound("try", <<Pass, Import(<< <<"a">> >>)>>)}

\* Texts: the ones that are no module, and the modules of up to MaxStatements statements.
Texts ==
    {[valid |-> FALSE, body |-> <<>>]}
    \cup {[valid |-> TRUE, body |-> body] :
             body \in UNION {[1..n -> Statements] : n \in 0..MaxStatements}}

InitParser ==
    /\ pc = "start"
    /\ py_code \in Texts
    /\ extracted = None
    /\ LatestIdle
    /\ FinderIdle
    /\ MergeIdle
    /\ DepIdle
    /\ ManifestIdle
    /\ EvalIdle
    /\ EngineIdle

\* extract_dependencies(py_code)
DoExtract ==
    /\ pc = "start"
    /\ extracted' = Some(ExtractDependencies(py_code))
    /\ pc' = "extracted"
    /\ UNCHANGED <<py_code, latestVars, finderVars, mergeVars, depVars, manifestVars, evalVars, engineVars>>

NextParser == DoExtract

SpecParser == InitParser /\ [][NextParser]_vars

----------------------------------------------------------------------------
(* SpecMerge: merge_args_and_config on a command line and a configuration. *)

\* Command lines: each option absent or given, --remap given once or twice.
ArgsSet ==
    [exclude_dirs : {<<>>, << <<"b">> >>},
     extra_indexes : {<<>>, <<"https://extra-1.example/simple">>},
     preferred_index : {None, Some("https://preferred.example/simple")},
     remap : {<<>>, << <<<<"a">>, <<"b">>>> >>,
              << <<<<"a">>, <<"b">>>>, <<<<"a">>, <<"d">>>> >>}]

\* Configuration files: each key absent or present, a list present and empty.
ConfigSet ==
    [exclude_dirs : {None, Some(<<>>), Some(<< <<"d">>, <<"m">> >>)},
     extra_indexes : {None, Some(<<"https://extra-2.example/simple">>)},
     preferred_index : {None, Some("https://mirror.example/simple")},
     remap : {None, Some(<<"a">> :> <<"p">>), Some(<<"o">> :> <<"s">>)}]

InitMerge ==
    /\ pc = "start"
    /\ args \in ArgsSet
    /\ config \in ConfigSet
    /\ merged = None
    /\ LatestIdle
    /\ FinderIdle
    /\ ParserIdle
    /\ DepIdle
    /\ ManifestIdle
    /\ EvalIdle
    /\ EngineIdle

\* merge_args_and_config(args, config)
DoMerge ==
    /\ pc = "start"
    /\ merged' = Some(MergeArgsAndConfig(args, config))
    /\ pc' = "options"
    /\ UNCHANGED <<args, config, latestVars, finderVars, parserVars, depVars, manifestVars,
                   evalVars, engineVars>>

NextMerge == DoMerge

SpecMerge == InitMerge /\ [][NextMerge]_vars

----------------------------------------------------------------------------
(* Spec: DetectEngine::new, then detect_dependencies on a tree whose files *)
(* were found, read and parsed.                                            *)

\* Longest list of extra indexes.
MaxExtraIndexes == 1

ExtraIndexNames == {"https://extra-1.example/simple", "https://extra-2.example/simple"}

PreferredIndexName == "https://preferred.example/simple"

EngineOptionsSet ==
    [exclude_dirs : {<<>>},
     extra_indexes : UNION {[1..n -> ExtraIndexNames] : n \in 0..MaxExtraIndexes},
     preferred_index : {None, Some(PreferredIndexName)}]

\* The collection that clears what it holds when a thread has panicked.
CollectJoinedLosingOnPanic(resolved_deps, w) ==
    IF w.status = "finished" /\ w.value.ok
    THEN HashSetInsert(resolved_deps, w.value.value)
    ELSE {}

\* .filter_map(|h| h.join().ok()).filter_map(|result| result.ok()).collect(): the value
\* of a thread joins resolved_deps when the thread returned, and returned Ok.
CollectJoined(resolved_deps, w) ==
    IF w.status = "finished" /\ w.value.ok
    THEN HashSetInsert(resolved_deps, w.value.value)
    ELSE resolved_deps

\* Manifests of the projects scanned.
ProjectManifests ==
    {[dependencies |-> <<>>, optional |-> <<>>],
     [dependencies |-> << <<"a", ">", "=", "1">> >>, optional |-> << <<"b">> >>]}

\* Trees of the projects scanned: a source file; with a virtual environment; with a
\* package; with a directory that cannot be listed; a path that does not exist.
ProjectTrees ==
    LET proj == <<"p", "r", "o", "j">>
        m == [path |-> << <<"m", ".", "p", "y">> >>, kind |-> "file"]
        venv == [path |-> << <<"v", "e", "n", "v">> >>, kind |-> "dir"]
        venv_k == [path |-> << <<"v", "e", "n", "v">>, <<"k", ".", "p", "y">> >>, kind |-> "file"]
        app == [path |-> << <<"a", "p", "p">> >>, kind |-> "dir"]
        app_k == [path |-> << <<"a", "p", "p">>, <<"k", ".", "p", "y">> >>, kind |-> "file"]
    IN {Rooted(proj, {m}),
        Rooted(proj, {m, venv, venv_k}),
        Rooted(proj, {m, app, app_k}),
        Rooted(proj, {m, [app EXCEPT !.kind = "unreadable"]}),
        {[path |-> <<proj>>, kind |-> "broken"]}}

\* What fs::read and from_utf8 find in a source file: a file that cannot be read, bytes
\* that are no UTF-8, text that is no module, and a module (import a, os / from app.a
\* import .. / def f(): import b).
Contents ==
    {[readable |-> FALSE, utf8 |-> FALSE, code |-> [valid |-> FALSE, body |-> <<>>]],
     [readable |-> TRUE, utf8 |-> FALSE, code |-> [valid |-> FALSE, body |-> <<>>]],
     [readable |-> TRUE, utf8 |-> TRUE, code |-> [valid |-> FALSE, body |-> <<>>]],
     [readable |-> TRUE, utf8 |-> TRUE,
      code |-> [valid |-> TRUE,
                body |-> <<Import(<< <<"a">>, <<"o", "s">> >>),
                           ImportFrom(Some(<<"a", "p", "p", ".", "a">>)),
                           Compound("def", <<Import(<< <<"b">> >>)>>)>>]]}

\* What a file of an installed package holds (import M).
Installed ==
    [readable |-> TRUE, utf8 |-> TRUE,
     code |-> [valid |-> TRUE, body |-> <<Import(<< <<"M">> >>)>>]]

\* The paths of the tree's files with the source extension.
SourcePaths(t) ==
    {entry.path : entry \in {e \in t : /\ e.kind = "file"
                                       /\ Extension(FileName(e)) = Some(<<"p", "y">>)}}

\* What the source files of a tree hold; the files of a virtual environment are the
\* installed ones.
ProjectSources(t) ==
    {held \in [SourcePaths(t) -> Contents \cup {Installed}] :
        \A path \in SourcePaths(t) :
            held[path] = Installed <=>
                \E k \in 2..(Len(path) - 1) : path[k] = <<"v", "e", "n", "v">>}

\* What an index can answer to a GET: nothing, an unreadable body, a listing without an
\* entry, a listing whose only entry is no version number, a listing whose entry has
\* nothing between "<name>-" and ".tar.gz", a listing of versions, a listing of
\* versions on which the closure of sort_by is no total order.
Responses ==
    {RequestError, UnreadableBody, Html(<<>>), Html(<< <<"1", "b">> >>), Html(<< <<>> >>),
     Html(<< <<"1", ".", "2">>, <<"1", ".", "1", "0">>, <<"1", ".", "9">> >>),
     Html(<< <<"1", ".", "2", ".", "0", ".", "0">>, <<"0", "0", "0", "0", "1">>,
             <<"1", ".", "1", "0">> >>)}

\* The kind of answer a query got, for the record of the worker.
AnswerKind(response, found) ==
    IF response.kind # "html" THEN response.kind
    ELSE IF IsSome(found) THEN "version" ELSE "no_version"

Init ==
    /\ pc = "start"
    /\ options \in EngineOptionsSet
    /\ manifest \in ProjectManifests
    /\ pyproject = ReadPyProject(manifest)
    /\ tree \in ProjectTrees
    /\ sources \in ProjectSources(tree)
    /\ finder = [excluded_dirs |-> <<>>]
    /\ files = None
    /\ packages = None
    /\ unread = {}
    /\ imports = {}
    /\ locals = {}
    /\ resolver = None
    /\ evaluator = None
    /\ overrides = <<>>
    /\ candidates = {}
    /\ existing = {}
    /\ result = [panicked |-> FALSE, deps |-> {}]
    /\ todo = {}
    /\ worker = None
    /\ resolved = {}
    /\ joined = {}
    /\ outcome = None
    /\ alldeps = {}
    /\ written = None
    /\ DepIdle
    /\ LatestIdle
    /\ ParserIdle
    /\ MergeIdle

\* DetectEngine::new
EngineNew ==
    /\ pc = "start"
    /\ resolver' = Some(ResolverNew(options.extra_indexes, options.preferred_index))
    /\ finder' = ExcludeDirs(PythonFileFinderNew,
                             << <<".", "v", "e", "n", "v">>, <<".", "g", "i", "t">>,
                                <<"t", "a", "r", "g", "e", "t">> >> \o options.exclude_dirs)
    /\ evaluator' = Some(New(overrides))
    /\ pc' = "ready"
    /\ UNCHANGED <<options, sources, unread, imports, todo, worker, resolved, joined, outcome,
                   overrides, candidates, existing, locals, result, tree, files, packages,
                   depVars, latestVars, parserVars, mergeVars, manifestVars>>

\* detect_dependencies, finding the python modules: find_files, and FileFindingError
\* when it is an Err.
DetectFind ==
    /\ pc = "ready"
    /\ files' = Some(FindFiles(finder, tree))
    /\ IF files'[1].ok
       THEN /\ unread' = files'[1].value
            /\ pc' = "parsing"
            /\ UNCHANGED outcome
       ELSE /\ outcome' = Some(Err("FileFindingError"))
            /\ pc' = "failed"
            /\ UNCHANGED unread
    /\ UNCHANGED <<options, resolver, sources, imports, todo, worker, resolved, joined, tree,
                   finder, packages, depVars, latestVars, parserVars, mergeVars, manifestVars, evalVars>>

\* detect_dependencies, parsing imports, one turn of the loop over the files: read,
\* from_utf8(..).unwrap(), the parser, then candidates.insert(i.split(".").take(1)).
DetectScan ==
    /\ pc = "parsing"
    /\ \E file \in unread :
          LET contents == sources[file]
              parsing == ExtractDependencies(contents.code)
          IN IF ~contents.readable
             THEN /\ outcome' = Some(Err("FileReadingError"))
                  /\ pc' = "failed"
                  /\ UNCHANGED <<unread, imports, candidates>>
             ELSE IF ~contents.utf8 \/ parsing.panicked
             THEN /\ pc' = "panicked"
                  /\ UNCHANGED <<outcome, unread, imports, candidates>>
             ELSE IF ~parsing.value.ok
             THEN /\ outcome' = Some(Err("ParsingError"))
                  /\ pc' = "failed"
                  /\ UNCHANGED <<unread, imports, candidates>>
             ELSE LET names == {parsing.value.value[n] : n \in 1..Len(parsing.value.value)}
                  IN /\ imports' = imports \cup names
                     /\ candidates' = candidates \cup {Split(i, ".")[1] : i \in names}
                     /\ unread' = unread \ {file}
                     /\ UNCHANGED <<pc, outcome>>
    /\ UNCHANGED <<options, resolver, sources, todo, worker, resolved, joined, overrides,
                   evaluator, existing, locals, result, finderVars, depVars, latestVars, mergeVars,
                   parserVars, manifestVars>>

\* detect_dependencies, get_local_packages: find_local_packages, FileFindingError when
\* it is an Err, and the file stems of the paths.
DetectLocal ==
    /\ pc = "parsing"
    /\ unread = {}
    /\ LET found == FindLocalPackages(finder, tree)
       IN IF found.panicked
          THEN /\ pc' = "panicked"
               /\ UNCHANGED <<outcome, packages, locals>>
          ELSE IF ~found.value.ok
          THEN /\ outcome' = Some(Err("FileFindingError"))
               /\ pc' = "failed"
               /\ UNCHANGED <<packages, locals>>
          ELSE /\ packages' = Some(found)
               /\ locals' = {FileStem(path[Len(path)]) : path \in found.value.value}
               /\ pc' = "scanned"
               /\ UNCHANGED outcome
    /\ UNCHANGED <<options, resolver, sources, unread, imports, todo, worker, resolved, joined,
                   overrides, evaluator, candidates, existing, result, tree, finder, files,
                   depVars, latestVars, parserVars, mergeVars, manifestVars>>

\* detect_dependencies, evaluating: the candidates, pyproject.all_deps() and the local
\* packages go to the evaluator; a panic of the evaluator ends the run.
DetectEvaluate ==
    /\ pc = "scanned"
    /\ alldeps' = AllDeps(pyproject)
    /\ existing' = AllDeps(pyproject)
    /\ result' \in Evaluate(Unwrap(evaluator), candidates, AllDeps(pyproject), locals)
    /\ todo' = result'.deps
    /\ pc' = IF result'.panicked THEN "panicked" ELSE "resolving"
    /\ UNCHANGED <<options, resolver, sources, unread, imports, worker, resolved, joined,
                   outcome, overrides,
                   evaluator, candidates, locals, depVars, auxVars, manifest, pyproject, written>>

\* detect_dependencies, resolving: the iterator chain is pulled by collect(), so the
\* next specifier gets its thread when the thread before it has been joined.
Spawn ==
    /\ pc = "resolving"
    /\ worker = None
    /\ \E dep \in todo :
          /\ todo' = todo \ {dep}
          /\ worker' = Some([dep |-> dep, status |-> "running", position |-> 1,
                             queried |-> <<>>, answers |-> <<>>, found |-> None,
                             value |-> Ok(dep)])
    /\ UNCHANGED <<pc, options, resolver, sources, unread, imports, resolved, joined, outcome,
                   depVars, auxVars, manifestVars,
                   evalVars>>

\* resolve, one step of find_map: resolve_on_index on the index at `position`.
Query ==
    /\ pc = "resolving"
    /\ IsSome(worker)
    /\ LET w == Unwrap(worker)
           indexes == Unwrap(resolver).indexes
       IN /\ w.status = "running"
          /\ w.position \in 1..Len(indexes)
          /\ \E response \in Responses :
                \E r \in ResolveOnIndex(w.dep, response) :
                    worker' = Some(
                        IF r.panicked
                        THEN [w EXCEPT !.queried = Append(@, indexes[w.position]),
                                       !.answers = Append(@, "panicked"),
                                       !.status = "panicked"]
                        ELSE [w EXCEPT !.queried = Append(@, indexes[w.position]),
                                       !.answers = Append(@, AnswerKind(response, r.value)),
                                       !.found = r.value,
                                       !.position = NextIndex(w.position, r.value)])
    /\ UNCHANGED <<pc, options, resolver, sources, unread, imports, todo, resolved, joined,
                   outcome, depVars,
                   auxVars, manifestVars, evalVars>>

\* resolve returns: find_map has ended, with a specifier or with nothing.
Return ==
    /\ pc = "resolving"
    /\ IsSome(worker)
    /\ LET w == Unwrap(worker)
       IN /\ w.status = "running"
          /\ w.position \notin 1..Len(Unwrap(resolver).indexes)
          /\ worker' = Some([w EXCEPT !.status = "finished",
                                      !.value = ResolveReturn(w.dep, w.found)])
    /\ UNCHANGED <<pc, options, resolver, sources, unread, imports, todo, resolved, joined,
                   outcome, depVars, auxVars,
                   manifestVars, evalVars>>

\* detect_dependencies: .filter_map(|h| h.join().ok()).filter_map(|result| result.ok()),
\* the value collected into resolved_deps.
JoinWorker ==
    /\ pc = "resolving"
    /\ IsSome(worker)
    /\ LET w == Unwrap(worker)
       IN /\ w.status \in {"finished", "panicked"}
          /\ resolved' = CollectJoined(resolved, w)
          /\ joined' = joined \cup {[dep |-> w.dep, status |-> w.status, value |-> w.value]}
    /\ worker' = None
    /\ UNCHANGED <<pc, options, resolver, sources, unread, imports, todo, outcome, depVars, auxVars,
                   manifestVars, evalVars>>

\* detect_dependencies: Ok(resolved_deps)
DetectReturn ==
    /\ pc = "resolving"
    /\ todo = {}
    /\ worker = None
    /\ outcome' = Some(Ok(resolved))
    /\ pc' = "done"
    /\ UNCHANGED <<options, resolver, sources, unread, imports, todo, worker, resolved, joined,
                   depVars, auxVars, manifestVars,
                   evalVars>>

Next ==
    \/ EngineNew
    \/ DetectFind
    \/ DetectScan
    \/ DetectLocal
    \/ DetectEvaluate
    \/ Spawn
    \/ Query
    \/ Return
    \/ JoinWorker
    \/ DetectReturn

Spec == Init /\ [][Next]_vars

----------------------------------------------------------------------------
(* Claims about specifier identity (SpecManifest).                         *)

\* The specifiers the manifest declares.
DeclaredDeps ==
    {Unwrap(Parse(manifest.dependencies[i])) : i \in DOMAIN manifest.dependencies}
    \cup {Unwrap(Parse(manifest.optional[i])) : i \in DOMAIN manifest.optional}

\* No two distinct entries of a set of specifiers have the same lowercased name.
OnePerLowercasedName(S) ==
    \A a, b \in S : ToLowercase(a.name) = ToLowercase(b.name) => a = b

\* C1: two specifiers are equal, and hash identically, exactly when their names are
\* equal after lowercasing, whatever their extras, version constraint and marker; so a
\* set of specifiers holds at most one entry per lowercased name.
C1_IdentityIsLowercasedName ==
    /\ \A a, b \in DeclaredDeps :
          /\ DepEq(a, b) <=> ToLowercase(a.name) = ToLowercase(b.name)
          /\ DepHash(a) = DepHash(b) <=> ToLowercase(a.name) = ToLowercase(b.name)
    /\ OnePerLowercasedName(pyproject.deps)
    /\ OnePerLowercasedName(pyproject.optional_deps)
    /\ OnePerLowercasedName(alldeps)

\* A manifest declaring the same name twice, in another case and with another
\* constraint, has been read and merged into one entry.
C1_Witness ==
    /\ pc = "merged"
    /\ \E a, b \in DeclaredDeps :
          /\ a.name # b.name
          /\ a.version_spec # b.version_spec
          /\ ToLowercase(a.name) = ToLowercase(b.name)
    /\ Cardinality(alldeps) = 1

\* C14: all_deps returns the union of the required and the optional/grouped
\* dependencies deduplicated by lowercased name: every declared name appears, a name
\* declared in both appears once, and nothing else appears.
C14_AllDepsUnion ==
    pc = "merged" =>
        /\ alldeps \subseteq pyproject.deps \cup pyproject.optional_deps
        /\ \A d \in pyproject.deps \cup pyproject.optional_deps :
              Cardinality({e \in alldeps : ToLowercase(e.name) = ToLowercase(d.name)}) = 1
        /\ {ToLowercase(e.name) : e \in alldeps} = {ToLowercase(d.name) : d \in DeclaredDeps}

\* A name is declared as required and, in another case, as optional, next to a name that
\* is optional only, and the merge holds the two names.
C14_Witness ==
    /\ pc = "merged"
    /\ \E d \in pyproject.deps : \E o \in pyproject.optional_deps :
          d # o /\ ToLowercase(d.name) = ToLowercase(o.name)
    /\ \E o \in pyproject.optional_deps :
          \A d \in pyproject.deps : ToLowercase(d.name) # ToLowercase(o.name)
    /\ Cardinality(alldeps) = 2

----------------------------------------------------------------------------
(* Claims about the specifier format (SpecDep).                            *)

\* C2: format round trip on values.  For every specifier d that parse returns,
\* parse(serialize(d)) succeeds and its name, extras, version constraint and marker
\* are those of d.
C2_RoundTripOnValues ==
    pc = "reparsed" =>
        /\ IsSome(reparsed)
        /\ Unwrap(reparsed).name = Unwrap(parsed).name
        /\ Unwrap(reparsed).extras = Unwrap(parsed).extras
        /\ Unwrap(reparsed).version_spec = Unwrap(parsed).version_spec
        /\ Unwrap(reparsed).markers = Unwrap(parsed).markers

\* A specifier with two extras, a version constraint and a marker has been
\* serialized and parsed again.
C2_Witness ==
    /\ pc = "reparsed"
    /\ Cardinality(Unwrap(parsed).extras) >= 2
    /\ IsSome(Unwrap(parsed).version_spec)
    /\ IsSome(Unwrap(parsed).markers)

\* The extras of a shape, as written, are in ascending order.
ExtrasWrittenSorted(sh) ==
    IsSome(sh.extras) =>
        LET items == Unwrap(sh.extras)
        IN \A i, j \in 1..Len(items) : i < j => ~StrLess(Trim(items[j]), Trim(items[i]))

\* A shape written without optional whitespace and without a repeated extra: nothing
\* around an extra, around the operator or before the semicolon, one space after it.
Canonical(sh) ==
    /\ IsSome(sh.extras) =>
          LET items == Unwrap(sh.extras)
          IN /\ \A i \in 1..Len(items) : Trim(items[i]) = items[i]
             /\ \A i, j \in 1..Len(items) : i < j => StrLess(items[i], items[j])
    /\ IsSome(sh.version) => Unwrap(sh.version).pre = <<>> /\ Unwrap(sh.version).post = <<>>
    /\ IsSome(sh.marker) => Unwrap(sh.marker).pre = <<>> /\ Unwrap(sh.marker).lead = <<" ">>

\* C3 as stated: for every valid specifier string s whose extras are written in
\* ascending order, serializing parse(s) yields exactly s.
C3_AsStated ==
    (pc = "serialized" /\ IsSome(shape) /\ ExtrasWrittenSorted(Unwrap(shape)))
        => Unwrap(text) = input

\* C3 as amended: for every valid specifier string s written without optional
\* whitespace whose extras are in strictly ascending order, serializing parse(s)
\* yields exactly s.
C3_CanonicalRoundTrip ==
    (pc = "serialized" /\ IsSome(shape) /\ Canonical(Unwrap(shape)))
        => Unwrap(text) = input

\* A canonical string with two extras, a version constraint and a marker has been
\* parsed and serialized.
C3_Witness ==
    /\ pc = "serialized"
    /\ IsSome(shape)
    /\ Canonical(Unwrap(shape))
    /\ IsSome(Unwrap(shape).extras)
    /\ Len(Unwrap(Unwrap(shape).extras)) = 2
    /\ IsSome(Unwrap(shape).version)
    /\ IsSome(Unwrap(shape).marker)

----------------------------------------------------------------------------
(* Claims about the candidate evaluator (SpecEval).                        *)

\* The candidates the two exclusions let through.
Kept == candidates \ (GetPythonStdlibModules \cup locals)

\* A specifier that carries a name only.
Unconstrained(d) == d.extras = {} /\ d.version_spec = None /\ d.markers = None

\* Some declared dependency has this name, up to case.
Declared(n) == \E e \in existing : ToLowercase(e.name) = ToLowercase(n)

\* C4: override precedence.  When an import name is a key of both the caller's table
\* and the built-in table, evaluate remaps a candidate with that name to the caller's
\* value, not to the built-in one.
C4_OverrideWins ==
    (pc = "evaluated" /\ ~result.panicked) =>
        \A c \in Kept :
            (/\ c \in DOMAIN overrides
             /\ c \in DOMAIN GetPythonIrregulars
             /\ IsSome(Parse(overrides[c]))
             /\ ~Declared(overrides[c]))
            => \E d \in result.deps : d.name = overrides[c]

\* C5: exclusions are decided on the name before it is remapped.  evaluate(C, E, L) is
\* evaluate of C without the names of the stdlib set and of L, and a candidate set
\* made only of such names yields the empty set, also when they are keys of the table.
C5_ExclusionsBeforeRemap ==
    pc = "evaluated" =>
        /\ Evaluate(Unwrap(evaluator), candidates, existing, locals)
             = Evaluate(Unwrap(evaluator), Kept, existing, locals)
        /\ result \in Evaluate(Unwrap(evaluator), Kept, existing, locals)
        /\ Kept = {} => result = [panicked |-> FALSE, deps |-> {}]

\* A standard-library name and a local name, both keys of the remap table, were the
\* only candidates, and nothing came out.
C5_Witness ==
    /\ pc = "evaluated"
    /\ \E c \in candidates :
          c \in GetPythonStdlibModules /\ c \in DOMAIN Unwrap(evaluator).irregulars_to_remap
    /\ \E c \in candidates :
          c \in locals /\ c \in DOMAIN Unwrap(evaluator).irregulars_to_remap
    /\ Kept = {}
    /\ result.deps = {}

\* C6: the already-declared filter runs on the remapped name.  No specifier evaluate
\* returns is equal by lowercased name to a specifier of the existing set.
C6_NothingDeclaredReturned ==
    pc = "evaluated" => \A d \in result.deps : ~Declared(d.name)

\* The only candidate matched no declared name as imported, its remapped name did, and
\* nothing came out.
C6_Witness ==
    /\ pc = "evaluated"
    /\ ~result.panicked
    /\ Cardinality(Kept) = 1
    /\ \A c \in Kept :
          /\ ~Declared(c)
          /\ Remap(Unwrap(evaluator), c) # c
          /\ Declared(Remap(Unwrap(evaluator), c))
    /\ result.deps = {}

\* The names C7 says come out: the table's value for a kept candidate that is a key,
\* the candidate itself otherwise, unless that name is declared already.
Targets ==
    {t \in {Remap(Unwrap(evaluator), c) : c \in Kept} : ~Declared(t)}

\* C7: remapping.  For the kept candidates evaluate outputs the unconstrained
\* specifier named by the table (or by the candidate, when it is no key) unless that
\* name is declared already, and nothing else.
C7_OutputIsRemappedNames ==
    pc = "evaluated" =>
        /\ ~result.panicked
        /\ \A t \in Targets :
              \E d \in result.deps :
                  ToLowercase(d.name) = ToLowercase(t) /\ Unconstrained(d)
        /\ \A d \in result.deps : d.name \in Targets /\ Unconstrained(d)

\* The operators of a version constraint: ~= == === != <= >= < > ^
ConstraintOperators ==
    {<<"~", "=">>, <<"=", "=">>, <<"=", "=", "=">>, <<"!", "=">>, <<"<", "=">>,
     <<">", "=">>, <<"<">>, <<">">>, <<"^">>}

\* C20: operator set.  Whenever parse returns a specifier with a version constraint,
\* its operator is one of ~=, ==, ===, !=, <=, >=, <, >, ^ and no other string.
C20_OperatorSet ==
    (IsSome(parsed) /\ IsSome(Unwrap(parsed).version_spec)) =>
        Unwrap(Unwrap(parsed).version_spec)[1] \in ConstraintOperators

----------------------------------------------------------------------------
(* Claims about the index resolver (Spec).                                 *)

\* C8: first-success short-circuit.  resolve queries the indexes strictly in list
\* order; an index is queried only after every earlier one has failed, and once an
\* index has yielded a version no later index is queried for that specifier.
C8_FirstSuccessShortCircuit ==
    IsSome(worker) =>
        LET w == Unwrap(worker)
            indexes == Unwrap(resolver).indexes
        IN /\ Len(w.queried) <= Len(indexes)
           /\ w.queried = SubSeq(indexes, 1, Len(w.queried))
           /\ Len(w.answers) = Len(w.queried)
           /\ \A n \in 1..(Len(w.answers) - 1) : w.answers[n] # "version"
           /\ w.status = "finished" =>
                 \/ w.answers # <<>> /\ w.answers[Len(w.answers)] = "version"
                 \/ Len(w.queried) = Len(indexes)

\* resolve has returned the second index's version and left a third index unqueried.
C8_Witness ==
    /\ IsSome(worker)
    /\ Unwrap(worker).status = "finished"
    /\ Len(Unwrap(resolver).indexes) = 3
    /\ Len(Unwrap(worker).queried) = 2
    /\ Unwrap(worker).answers[1] # "version"
    /\ Unwrap(worker).answers[2] = "version"
    /\ IsSome(Unwrap(worker).value.value.version_spec)

\* C9: silent degrade.  Whatever the indexes' failures, resolve returns a success
\* value; when every index fails it returns the input specifier, name, extras, version
\* constraint and marker unchanged; and detect_dependencies returns a result set, which
\* has an entry for every evaluated specifier.
C9_SilentDegrade ==
    /\ (IsSome(worker) /\ Unwrap(worker).status = "finished") =>
          LET w == Unwrap(worker)
          IN /\ w.value.ok
             /\ (\A n \in 1..Len(w.answers) : w.answers[n] # "version") =>
                   /\ w.value.value.name = w.dep.name
                   /\ w.value.value.extras = w.dep.extras
                   /\ w.value.value.version_spec = w.dep.version_spec
                   /\ w.value.value.markers = w.dep.markers
    /\ pc = "done" =>
          /\ IsSome(outcome)
          /\ Unwrap(outcome).ok
          /\ \A j \in joined :
                j.status = "finished" => \E r \in Unwrap(outcome).value : r.name = j.dep.name

\* Three indexes have failed in the three ways and resolve has returned its input.
C9_Witness ==
    /\ IsSome(worker)
    /\ Unwrap(worker).status = "finished"
    /\ Unwrap(worker).answers = <<"request_error", "unreadable_body", "no_version">>
    /\ Unwrap(worker).value = Ok(Unwrap(worker).dep)

----------------------------------------------------------------------------
(* Claims about the selection of the latest version (SpecLatest).          *)

\* A segment that is a decimal integer.
IsDecimal(segment) ==
    Len(segment) > 0 /\ \A i \in 1..Len(segment) : segment[i] \in Digits

AllDecimal(v) == \A n \in 1..Len(Split(v, ".")) : IsDecimal(Split(v, ".")[n])

RECURSIVE StripZeros(_)
StripZeros(segment) ==
    IF Len(segment) > 0 /\ Head(segment) = "0" THEN StripZeros(Tail(segment)) ELSE segment

\* x < y for two segments of decimal digits read as numbers of any size.
NumLess(x, y) ==
    LET a == StripZeros(x)
        b == StripZeros(y)
    IN IF Len(a) # Len(b) THEN Len(a) < Len(b) ELSE StrLess(a, b)

\* Segment-by-segment numeric comparison: w beats v when the first differing segment of
\* w is the larger one, or when every compared segment ties and w is the longer string.
Beats(w, v) ==
    LET ws == Split(w, ".")
        vs == Split(v, ".")
        m == IF Len(ws) < Len(vs) THEN Len(ws) ELSE Len(vs)
        differ == {n \in 1..m : NumLess(ws[n], vs[n]) \/ NumLess(vs[n], ws[n])}
    IN IF differ = {} THEN Len(w) > Len(v)
       ELSE LET n == CHOOSE x \in differ : \A y \in differ : x <= y
            IN NumLess(vs[n], ws[n])

\* C11: latest-version selection compares numerically.  For the empty list nothing is
\* selected; for a non-empty list of versions whose segments are all decimal integers
\* the selected version is an element of the list that no other element beats under
\* segment-by-segment numeric comparison.
C11_NumericLatest ==
    (pc = "selected" /\ IsSome(latest)) =>
        LET o == Unwrap(latest)
        IN /\ listing = <<>> => (~o.panicked /\ o.value = None)
           /\ (listing # <<>> /\ \A i \in 1..Len(listing) : AllDecimal(listing[i])) =>
                 /\ ~o.panicked
                 /\ IsSome(o.value)
                 /\ \E i \in 1..Len(listing) : listing[i] = Unwrap(o.value)
                 /\ \A j \in 1..Len(listing) : ~Beats(listing[j], Unwrap(o.value))

----------------------------------------------------------------------------
(* Claims about the source scanner (SpecFinder).                           *)

\* The directories an entry has on its path below the root of the tree.
DirsBelowRoot(t, entry) ==
    {EntryAt(t, SubSeq(entry.path, 1, k)) : k \in 2..(Len(entry.path) - 1)}

\* The files with the source extension that have no excluded directory on their path
\* below the root.
SourceFilesOutsideExcluded(self, t) ==
    {entry.path : entry \in
        {e \in t : /\ e.kind = "file"
                   /\ Extension(FileName(e)) = Some(<<"p", "y">>)
                   /\ \A dir \in DirsBelowRoot(t, e) :
                         \A i \in 1..Len(self.excluded_dirs) :
                             self.excluded_dirs[i] # FileName(dir)}}

\* C13: directory pruning.  find_files returns exactly the files with the source
\* extension that have no directory with a base name in the exclusion set on their
\* path below the root.
C13_DirectoryPruning ==
    IsSome(files) =>
        /\ Unwrap(files).ok
        /\ Unwrap(files).value = SourceFilesOutsideExcluded(finder, tree)

----------------------------------------------------------------------------
(* Claims about import extraction (SpecParser).                            *)

RECURSIVE ImportedNames(_)
\* The names the statements of a body import, wherever the statements are: the names of
\* each import statement, the module of each from-import statement.
ImportedNames(body) ==
    IF Len(body) = 0 THEN {}
    ELSE LET stmt == Head(body)
         IN {stmt.names[n] : n \in 1..Len(stmt.names)}
            \cup {stmt.module[n] : n \in 1..Len(stmt.module)}
            \cup ImportedNames(stmt.body)
            \cup ImportedNames(Tail(body))

\* C19: import extraction is complete.  For every syntactically valid module,
\* extract_imports returns the name of every import statement and the module of every
\* from-import statement of the text, top-level or nested, and no other name.
C19_ExtractionComplete ==
    (IsSome(extracted) /\ py_code.valid) =>
        LET o == Unwrap(extracted)
        IN /\ ~o.panicked
           /\ o.value.ok
           /\ {o.value.value[n] : n \in 1..Len(o.value.value)} = ImportedNames(py_code.body)

----------------------------------------------------------------------------
(* Claims about the detection run (Spec) and the scanner (SpecFinder).     *)

\* A source file that cannot be read, or whose bytes are no text of a module.
Failing(contents) == ~contents.readable \/ ~contents.utf8 \/ ~contents.code.valid

\* C12: fail-fast scan.  When a discovered source file cannot be read or parsed,
\* extract_imports reports a failure value for the text that is no module, and the run
\* ends with the FileReading or Parsing error: it does not panic, evaluates no
\* candidate, queries no index and produces no result set.
C12_FailFastScan ==
    (IsSome(files) /\ Unwrap(files).ok
       /\ \E file \in Unwrap(files).value : Failing(sources[file])) =>
        /\ \A file \in Unwrap(files).value :
              (sources[file].readable /\ sources[file].utf8 /\ ~sources[file].code.valid) =>
                  /\ ~ExtractDependencies(sources[file].code).panicked
                  /\ ~ExtractDependencies(sources[file].code).value.ok
        /\ pc \in {"parsing", "failed"}
        /\ pc = "failed" =>
              Unwrap(outcome) \in {Err("FileReadingError"), Err("ParsingError")}
        /\ todo = {} /\ worker = None /\ joined = {} /\ resolved = {}

\* C16: parallel resolution.  Every worker is started before the run waits on any of
\* them: while the run waits on a worker, or has waited on one, no evaluated specifier
\* is left without its worker.
C16_AllStartedBeforeWait ==
    (IsSome(worker) \/ joined # {}) => todo = {}

\* The values of the threads that returned Ok.
Outputs ==
    {j.value.value : j \in {x \in joined : x.status = "finished" /\ x.value.ok}}

\* C17: fan-in.  detect_dependencies returns after every worker it started has
\* terminated, and its result is exactly the set of the outputs of the workers that
\* finished successfully; a worker that panics adds nothing, does not end the run and
\* removes no other worker's output.
C17_FanIn ==
    /\ pc \in {"resolving", "done"} => resolved = Outputs
    /\ pc = "done" =>
          /\ worker = None
          /\ todo = {}
          /\ {j.dep : j \in joined} = result.deps
          /\ IsSome(outcome)
          /\ Unwrap(outcome) = Ok(Outputs)

\* The run has returned after one worker panicked and another returned a specifier.
C17_Witness ==
    /\ pc = "done"
    /\ \E j \in joined : j.status = "panicked"
    /\ \E j \in joined : j.status = "finished" /\ j.value.value \in Unwrap(outcome).value

\* C18: scanner failures are reported.  When the walk of find_files or of
\* find_local_packages yields an error for an entry, or the root cannot be
\* canonicalized, the operation returns an error: it neither returns the paths it
\* could walk nor panics.
C18_ScannerFailuresReported ==
    /\ (IsSome(files) /\ Walk(finder, tree).err # {}) => ~Unwrap(files).ok
    /\ (IsSome(packages) /\ Walk(finder, tree).err # {}) =>
          /\ ~Unwrap(packages).panicked
          /\ ~Unwrap(packages).value.ok

----------------------------------------------------------------------------
(* Claims about option merging (SpecMerge).                                *)

\* The table a list of key=value pairs gives: each key with the value of its last pair.
GivenRemap(pairs) ==
    [k \in {pairs[n][1] : n \in 1..Len(pairs)} |->
        LET at == {n \in 1..Len(pairs) : pairs[n][1] = k}
        IN pairs[CHOOSE n \in at : \A other \in at : other <= n][2]]

\* C15: option merging is per field with command-line precedence.  Each merged option
\* is the command line's value when that value is non-empty (or present), otherwise the
\* configuration file's value, otherwise empty.
C15_PerFieldPrecedence ==
    IsSome(merged) =>
        LET o == Unwrap(merged)
        IN /\ args.exclude_dirs # <<>> => o.exclude_dirs = args.exclude_dirs
           /\ (args.exclude_dirs = <<>> /\ IsSome(config.exclude_dirs)) =>
                 o.exclude_dirs = Unwrap(config.exclude_dirs)
           /\ (args.exclude_dirs = <<>> /\ ~IsSome(config.exclude_dirs)) => o.exclude_dirs = <<>>
           /\ args.extra_indexes # <<>> => o.extra_indexes = args.extra_indexes
           /\ (args.extra_indexes = <<>> /\ IsSome(config.extra_indexes)) =>
                 o.extra_indexes = Unwrap(config.extra_indexes)
           /\ (args.extra_indexes = <<>> /\ ~IsSome(config.extra_indexes)) =>
                 o.extra_indexes = <<>>
           /\ IsSome(args.preferred_index) => o.preferred_index = args.preferred_index
           /\ ~IsSome(args.preferred_index) => o.preferred_index = config.preferred_index
           /\ args.remap # <<>> =>
                 /\ DOMAIN o.extras_to_remap = DOMAIN GivenRemap(args.remap)
                 /\ \A k \in DOMAIN o.extras_to_remap :
                       o.extras_to_remap[k] = GivenRemap(args.remap)[k]
           /\ (args.remap = <<>> /\ IsSome(config.remap)) =>
                 o.extras_to_remap = Unwrap(config.remap)
           /\ (args.remap = <<>> /\ ~IsSome(config.remap)) => DOMAIN o.extras_to_remap = {}

\* The command line gives the directories and the remap table, the configuration file
\* gives directories, indexes and a table with another key: the merge has the command
\* line's directories and table, and the configuration's indexes.
C15_Witness ==
    /\ IsSome(merged)
    /\ args.exclude_dirs # <<>>
    /\ IsSome(config.exclude_dirs) /\ Unwrap(config.exclude_dirs) # <<>>
    /\ args.extra_indexes = <<>>
    /\ IsSome(config.extra_indexes)
    /\ Len(args.remap) = 2
    /\ IsSome(config.remap) /\ <<"o">> \in DOMAIN Unwrap(config.remap)
    /\ Unwrap(merged).exclude_dirs = args.exclude_dirs
    /\ Unwrap(merged).extra_indexes = Unwrap(config.extra_indexes)
    /\ DOMAIN Unwrap(merged).extras_to_remap = {<<"a">>}

----------------------------------------------------------------------------
(* Claims about what resolve returns (Spec). *)

\* C21: shape of a resolved specifier.  When resolve takes its answer from an index,
\* the specifier returned has the input's name and the constraint ~=v, where v is a
\* non-empty string of ASCII digits and dots; a specifier without a version constraint
\* is returned only when every index was asked and none gave an answer.
C21_ResolvedShape ==
    (IsSome(worker) /\ Unwrap(worker).status = "finished") =>
        LET w == Unwrap(worker)
            d == w.value.value
        IN /\ w.value.ok
           /\ d.name = w.dep.name
           /\ IsSome(w.found) =>
                 /\ IsSome(d.version_spec)
                 /\ Unwrap(d.version_spec)[1] = <<"~", "=">>
                 /\ Len(Unwrap(d.version_spec)[2]) > 0
                 /\ \A i \in 1..Len(Unwrap(d.version_spec)[2]) :
                       Unwrap(d.version_spec)[2][i] \in Digits \cup {"."}
           /\ ~IsSome(d.version_spec) =>
                 /\ ~IsSome(w.found)
                 /\ w.queried = Unwrap(resolver).indexes

----------------------------------------------------------------------------
(* Claims about the order of versions (SpecLatest). *)

\* The lists that hold the elements of `versions` in another order.
Reordered(versions) ==
    {[i \in 1..Len(versions) |-> versions[p[i]]] : p \in Permutations(1..Len(versions))}

\* C22: latest-version selection is deterministic in the set of versions.  The closure
\* used for sorting is a consistent total preorder on the list, and every permutation of
\* the list selects the version the list itself selects.
C22_SelectionDeterministic ==
    (pc = "selected" /\ IsSome(latest)) =>
        /\ IsTotalOrderOn(listing)
        /\ \A reordered \in Reordered(listing) :
              GetLatestVersionFromVersionStr(reordered) = {Unwrap(latest)}

----------------------------------------------------------------------------
(* Claims about writing the manifest (SpecManifest). *)

\* C23: writing keeps what was declared.  After read followed by write, every entry of
\* the manifest's required dependency list is present in the written list with its name,
\* extras, version constraint and marker, also when two entries share a name.
C23_WriteKeepsDeclared ==
    (pc = "written" /\ IsSome(written)) =>
        \A i \in DOMAIN manifest.dependencies :
            \E k \in DOMAIN Unwrap(written) :
                Parse(Unwrap(written)[k]) = Parse(manifest.dependencies[i])

----------------------------------------------------------------------------
(* Claims about the totality of the evaluator (SpecEval). *)

\* C24: evaluate is total.  For every candidate set and every override table evaluate
\* returns a set without aborting, and every name it handles, before or after
\* remapping, parses to a specifier.
C24_EvaluateTotal ==
    pc = "evaluated" =>
        /\ ~result.panicked
        /\ \A c \in Kept :
              /\ IsSome(Parse(c))
              /\ IsSome(Parse(Remap(Unwrap(evaluator), c)))

====
